---- MODULE Spec2Model ----
(***************************************************************************)
(* Model of `mcli files duplicates` (src/mcli/commands/files.py), and of   *)
(* `mcli files diskusage` and `mcli utils runall` further down.            *)
(*                                                                         *)
(* The command walks a directory tree, groups the files by the size that   *)
(* os.path.getsize reports, hashes the members of every size group that    *)
(* has more than one member, and prints every hash bucket with more than   *)
(* one member.  The file system is part of the state: other processes may  *)
(* remove, rewrite or chmod a file while the scan runs.                    *)
(***************************************************************************)
EXTENDS Integers, Sequences, FiniteSets, TLC

(***************************************************************************)
(* Bounds of the model.                                                    *)
(***************************************************************************)
\* Largest value of the --min-size option that is tried.
MaxMinSize == 2
\* Number of changes other processes make to the tree during one scan.
MaxEnvChanges == 1
\* Number of script names a directory given to runall can hold.
MaxScripts == 3
\* Largest value of the --depth option of diskusage that is tried.
MaxDepth == 2
\* Largest file size in the tree given to diskusage.
MaxFileSize == 2

(***************************************************************************)
(* The directory tree.  Paths are sequences of names, os.path.join appends *)
(* a name.  The layout (which names exist in which directory, in scandir   *)
(* order) is fixed; which of the files are present, and their contents,    *)
(* is chosen by Init.  The root holds a symbolic link "l" to a directory   *)
(* outside the tree, the subdirectory a symbolic link "u" back to the root *)
(* (a cycle).                                                              *)
(***************************************************************************)
RootPath == <<"r">>
SubPath == <<"r", "d">>
\* A directory outside the scanned tree, and the one file in it.
OutsidePath == <<"x">>
OutsideFile == <<"x", "f">>
\* The symbolic links of the tree and what they point to.
LinkPath == <<"r", "l">>
UpLinkPath == <<"r", "d", "u">>
LinkPaths == {LinkPath, UpLinkPath}
LinkTarget(link) == IF link = LinkPath THEN OutsidePath ELSE RootPath
\* Entries of the root that are no regular files: a FIFO nobody writes to,
\* and a symbolic link to the regular file r/a.
FifoPath == <<"r", "p">>
FileLinkPath == <<"r", "s">>
FileLinkTarget == <<"r", "a">>
SpecialPaths == {FifoPath, FileLinkPath}

RECURSIVE Real(_)
\* The path with the symbolic links on it resolved.
Real(p) ==
    IF p = FileLinkPath THEN FileLinkTarget
    ELSE IF \E k \in 1..Len(p) : SubSeq(p, 1, k) \in LinkPaths
    THEN LET k == CHOOSE k \in 1..Len(p) : SubSeq(p, 1, k) \in LinkPaths
         IN Real(LinkTarget(SubSeq(p, 1, k)) \o SubSeq(p, k + 1, Len(p)))
    ELSE p

Join(root, name) == Append(root, name)

DirPaths == {RootPath, SubPath}
FilePaths == {Join(RootPath, "a"), Join(RootPath, "b"),
              Join(SubPath, "c"), Join(SubPath, "e")}

\* Names of the regular files of a directory, in scandir order.
FileNames(dir) ==
    IF Real(dir) = RootPath THEN <<"a", "b">>
    ELSE IF Real(dir) = SubPath THEN <<"c", "e">>
    ELSE <<"f">>
\* Names of the subdirectories of a directory, in scandir order.
SubdirNames(dir) == IF Real(dir) = RootPath THEN <<"d">> ELSE <<>>
\* Names of the symbolic links of a directory; they come last in scandir order.
LinkNames(dir) ==
    IF Real(dir) = RootPath THEN <<"l">>
    ELSE IF Real(dir) = SubPath THEN <<"u">>
    ELSE <<>>

Parent(p) == SubSeq(p, 1, Len(p) - 1)

\* File contents: byte strings.
Contents == {<<2>>, <<1, 1>>, <<1, 2>>, <<2, 1>>}
NoFile == [present |-> FALSE, data |-> <<>>]
\* A regular file of no bytes; st_size of a FIFO is 0 as well.
EmptyFile == [present |-> TRUE, data |-> <<>>]
FifoState == EmptyFile
OutsideState == [present |-> TRUE, data |-> <<2>>]
FileStates == {NoFile} \cup {[present |-> TRUE, data |-> c] : c \in Contents}

\* Directory permissions: "rx" list and search, "r" list only (stat of an
\* entry fails with EACCES), "none" neither, "absent" no such directory.
DirModes == {"rx", "r", "none"}
RootModes == DirModes \cup {"absent"}

RECURSIVE SumBytes(_)
SumBytes(s) == IF s = <<>> THEN 0 ELSE Head(s) + SumBytes(Tail(s))

\* hashlib.md5(data).hexdigest(): a digest from byte strings of every length
\* into a fixed finite range, so distinct strings (of equal or of different
\* length) can share a digest.
DigestRange == 3
Md5(data) == SumBytes(data) % DigestRange

VARIABLES
    fs,             \* FilePaths -> FileStates: the files of the tree
    unreadable,     \* files that open() refuses (EACCES)
    dmode,          \* DirPaths -> permissions of the directories
    changes,        \* changes made by other processes so far
    min_size,       \* the --min-size option
    pc,             \* "idle", "walk", "hash", "report", "done", "crashed"
    stack,          \* os.walk: directories still to be listed
    files_list,     \* paths of the current directory still to be stat'd
    files_by_size,  \* insertion-ordered dict size -> list of paths
    files_by_hash,  \* insertion-ordered dict digest -> list of paths
    duplicates_found,
    grp,            \* index of the dict item the hash / report loop is at
    idx,            \* index into that item's list (0: report header not printed)
    out,            \* what click.echo printed, stdout and stderr interleaved
    trace,          \* the file system calls issued so far
    exitcode,       \* -1 while running, else the exit status of the process
    run,            \* 1 for the first invocation of the command, 2 for a second
    first_out,      \* what the first invocation printed, once it has ended
    special,        \* the entries of SpecialPaths that exist in the root
    \* utils runall
    dir_scripts,    \* names in the directory that match the pattern
    behaviour,      \* what running each script does: "ok", "fail", "nostart"
    scripts,        \* sorted(glob.glob(search_pattern))
    script_i,       \* position of the for loop in scripts
    success_count,
    fail_count,
    executed,       \* the subprocess.run calls made so far
    ra_out,         \* what runall printed
    ra_pc,          \* "idle", "loop", "done"
    \* files diskusage
    depth,          \* the --depth option
    du_mode,        \* permissions of the directories of the tree
    du_size,        \* st_size of the files of the tree
    du_todo,        \* entries of os.scandir(path) still to be handled
    items,          \* list of (size, name)
    du_out,         \* what diskusage printed
    du_pc,          \* "idle", "loop", "done", "crashed"
    du_exit         \* -1 while running, else the exit status

vars == <<fs, unreadable, dmode, changes, min_size, pc, stack, files_list,
          files_by_size, files_by_hash, duplicates_found, grp, idx, out,
          trace, exitcode, run, first_out, special,
          dir_scripts, behaviour, scripts, script_i, success_count,
          fail_count, executed, ra_out, ra_pc,
          depth, du_mode, du_size, du_todo, items, du_out, du_pc, du_exit>>

fsvars == <<fs, unreadable, dmode, changes>>
\* The state of runall and of diskusage.
runallvars == <<dir_scripts, behaviour, scripts, script_i, success_count,
                fail_count, executed, ra_out, ra_pc>>
duvars == <<depth, du_mode, du_size, du_todo, items, du_out, du_pc, du_exit>>
\* The option, the invocation count, the special entries of the root and the
\* other commands: no step of a scan changes them.
runvars == <<min_size, run, first_out, special, runallvars, duvars>>
\* The whole state of duplicates.
dupvars == <<fsvars, min_size, run, first_out, special, pc, stack,
             files_list, files_by_size, files_by_hash, duplicates_found,
             grp, idx, out, trace, exitcode>>

(***************************************************************************)
(* File system calls.                                                      *)
(***************************************************************************)
\* The file and the directory a path leads to, through symbolic links.
FileAt(p) ==
    IF Real(p) = OutsideFile THEN OutsideState
    ELSE IF Real(p) = FifoPath THEN FifoState
    ELSE fs[Real(p)]
ModeOf(dir) == IF Real(dir) = OutsidePath THEN "rx" ELSE dmode[Real(dir)]

Searchable(dir) == ModeOf(dir) = "rx"

RECURSIVE Resolvable(_)
\* Every directory above p can be searched.
Resolvable(p) ==
    IF Len(p) <= 1 THEN TRUE
    ELSE Searchable(Parent(p)) /\ Resolvable(Parent(p))

\* os.scandir(dir) succeeds.
Listable(dir) == ModeOf(dir) \in {"rx", "r"} /\ Resolvable(dir)

\* os.stat(p) succeeds.
StatOk(p) == Resolvable(p) /\ FileAt(p).present
\* os.path.getsize(p) when it succeeds.
GetSize(p) == Len(FileAt(p).data)
\* open(p, 'rb') and f.read() succeed.
ReadOk(p) == StatOk(p) /\ Real(p) \notin unreadable
\* open(p, 'rb') of a FIFO does not return until a writer opens it.
ReadBlocks(p) == ReadOk(p) /\ Real(p) = FifoPath

\* Names of the special entries of a directory, in scandir order.
SpecialNames(dir) ==
    IF Real(dir) = RootPath
    THEN (IF FifoPath \in special THEN <<"p">> ELSE <<>>)
             \o (IF FileLinkPath \in special THEN <<"s">> ELSE <<>>)
    ELSE <<>>

\* DirEntry.is_dir() of os.walk: a real directory is known from the listing;
\* a symbolic link has to be stat'd, which fails in a directory that cannot
\* be searched, and os.walk then takes the link for a file.
DirNames(dir) ==
    SubdirNames(dir) \o (IF Searchable(dir) THEN LinkNames(dir) ELSE <<>>)
NonDirNames(dir) ==
    FileNames(dir) \o SpecialNames(dir)
        \o (IF Searchable(dir) THEN <<>> ELSE LinkNames(dir))

\* A file system call as recorded in trace: the phase it was issued in, what
\* was called on which path, whether it succeeded, and the size (getsize) or
\* the bytes (read) it returned.
Call(op, path, ok, size, data) ==
    [at |-> pc, op |-> op, path |-> path, ok |-> ok, size |-> size,
     data |-> data]

\* click.echo lines: kind, the path and the number they carry.
Echo(kind, path, n) == [k |-> kind, path |-> path, n |-> n]

(***************************************************************************)
(* collections.defaultdict(list) as an insertion-ordered sequence of items. *)
(***************************************************************************)
HasKey(d, key) == \E i \in 1..Len(d) : d[i].key = key
KeyIndex(d, key) == CHOOSE i \in 1..Len(d) : d[i].key = key
\* d[key].append(v) done twice.
DictAppend_Twice(d, key, v) ==
    IF HasKey(d, key)
    THEN [d EXCEPT ![KeyIndex(d, key)].val = Append(Append(@, v), v)]
    ELSE Append(d, [key |-> key, val |-> <<v, v>>])

\* A dict that iterates its newest key first.
DictAppend_Front(d, key, v) ==
    IF HasKey(d, key)
    THEN [d EXCEPT ![KeyIndex(d, key)].val = Append(@, v)]
    ELSE <<[key |-> key, val |-> <<v>>]>> \o d

\* d[key].append(v)
DictAppend(d, key, v) ==
    IF HasKey(d, key)
    THEN [d EXCEPT ![KeyIndex(d, key)].val = Append(@, v)]
    ELSE Append(d, [key |-> key, val |-> <<v>>])

\* os.path.join(dir, name) for every name of a listing.
JoinAll(dir, names) == [i \in 1..Len(names) |-> Join(dir, names[i])]
\* The entry p is in the listing of its directory.
EntryPresent(p) ==
    p \in LinkPaths \/ p \in SpecialPaths \/ FileAt(p).present
RECURSIVE SelectPresent(_)
SelectPresent(s) ==
    IF s = <<>> THEN <<>>
    ELSE IF EntryPresent(Head(s)) THEN <<Head(s)>> \o SelectPresent(Tail(s))
    ELSE SelectPresent(Tail(s))

\* os.path.islink(p)
IsLink(p) == Real(Parent(p)) \o <<p[Len(p)]>> \in LinkPaths
RECURSIVE SelectNotLink(_)
SelectNotLink(s) ==
    IF s = <<>> THEN <<>>
    ELSE IF IsLink(Head(s)) THEN SelectNotLink(Tail(s))
    ELSE <<Head(s)>> \o SelectNotLink(Tail(s))

(***************************************************************************)
(* Initial states: any tree over the layout, any option value, the command *)
(* not yet started.                                                        *)
(***************************************************************************)
\* The command not yet started.
NotStarted ==
    /\ changes = 0
    /\ pc = "idle"
    /\ stack = <<>>
    /\ files_list = <<>>
    /\ files_by_size = <<>>
    /\ files_by_hash = <<>>
    /\ duplicates_found = FALSE
    /\ grp = 0
    /\ idx = 0
    /\ out = <<>>
    /\ trace = <<>>
    /\ exitcode = -1
    /\ run = 1
    /\ first_out = <<>>

\* runall not yet started, and a directory without scripts.
ScriptNames == 1..MaxScripts
RunAllNotStarted ==
    /\ scripts = <<>>
    /\ script_i = 0
    /\ success_count = 0
    /\ fail_count = 0
    /\ executed = <<>>
    /\ ra_out = <<>>
    /\ ra_pc = "idle"
RunAllUnused ==
    /\ dir_scripts = {}
    /\ behaviour = [n \in ScriptNames |-> "ok"]
    /\ RunAllNotStarted

\* The tree given to diskusage: the root t holds the file k and the
\* directories x and y; x holds the file f and the directory n, n the file
\* g, y the file h.
DuRoot == <<"t">>
DuDirs == {DuRoot, <<"t", "x">>, <<"t", "y">>, <<"t", "x", "n">>}
DuFiles == {<<"t", "k">>, <<"t", "x", "f">>, <<"t", "x", "n", "g">>,
            <<"t", "y", "h">>}
\* diskusage not yet started, and an accessible tree of empty files.
DuNotStarted ==
    /\ du_todo = <<>>
    /\ items = <<>>
    /\ du_out = <<>>
    /\ du_pc = "idle"
    /\ du_exit = -1
DuUnused ==
    /\ depth = 1
    /\ du_mode = [d \in DuDirs |-> "rx"]
    /\ du_size = [f \in DuFiles |-> 0]
    /\ DuNotStarted

Init ==
    /\ fs \in [FilePaths -> FileStates]
    /\ dmode \in {m \in [DirPaths -> RootModes] : m[SubPath] \in DirModes}
    /\ min_size \in 0..MaxMinSize
    /\ special = {}
    /\ unreadable = {}
    /\ NotStarted
    /\ RunAllUnused
    /\ DuUnused

(***************************************************************************)
(* The command.                                                            *)
(***************************************************************************)
\* click.Path(exists=True) rejects a path that does not exist (exit status 2);
\* otherwise the two banner lines are printed and os.walk starts.
Start ==
    /\ pc = "idle"
    /\ IF dmode[RootPath] = "absent"
       THEN /\ pc' = "done"
            /\ exitcode' = 2
            /\ out' = Append(out, Echo("usage_error", RootPath, 0))
            /\ trace' = Append(trace, Call("exists", RootPath, FALSE, 0, <<>>))
            /\ UNCHANGED stack
       ELSE /\ pc' = "walk"
            /\ exitcode' = exitcode
            /\ out' = out \o <<Echo("scanning", RootPath, 0),
                                Echo("minimum", <<>>, min_size)>>
            /\ trace' = Append(trace, Call("exists", RootPath, TRUE, 0, <<>>))
            /\ stack' = <<RootPath>>
    /\ UNCHANGED <<fsvars, runvars, files_list, files_by_size, files_by_hash,
                   duplicates_found, grp, idx>>

\* os.walk called with followlinks=True: linked directories are walked too.
Descend_FollowLinks(top) == JoinAll(top, DirNames(top))

\* The directories os.walk descends into from top (followlinks is False).
Descend(top) == SelectNotLink(JoinAll(top, DirNames(top)))

\* os.walk pops a directory and lists it.  A directory that cannot be listed
\* is passed over (onerror is None): nothing is yielded, nothing is printed.
WalkDir ==
    /\ pc = "walk"
    /\ files_list = <<>>
    /\ stack # <<>>
    /\ LET top == Head(stack) IN
       IF Listable(top)
       THEN /\ files_list' =
                   SelectPresent(JoinAll(top, NonDirNames(top)))
            /\ stack' = Descend(top) \o Tail(stack)
            /\ trace' = Append(trace, Call("scandir", top, TRUE, 0, <<>>))
       ELSE /\ files_list' = <<>>
            /\ stack' = Tail(stack)
            /\ trace' = Append(trace, Call("scandir", top, FALSE, 0, <<>>))
    /\ UNCHANGED <<fsvars, runvars, pc, files_by_size, files_by_hash,
                   duplicates_found, grp, idx, out, exitcode>>

\* The threshold test of the docstring: only files larger than min-size.
MeetsThreshold_Strict(size) == size > min_size

\* The threshold test left out: every file that can be stat'd is a candidate.
MeetsThreshold_Always(size) == TRUE

\* if size >= min_size
MeetsThreshold(size) == size >= min_size

\* The except clause of the walk printing its warning twice.
AccessWarning_Twice(filepath) ==
    <<Echo("warn_access", filepath, 0), Echo("warn_access", filepath, 0)>>

\* The except clause of the walk swallowing the error (pass).
AccessWarning_Silent(filepath) == <<>>

\* What the except clause of the walk prints for filepath.
AccessWarning(filepath) == <<Echo("warn_access", filepath, 0)>>

\* The body of the inner loop of the walk for one filename.
WalkFile ==
    /\ pc = "walk"
    /\ files_list # <<>>
    /\ LET filepath == Head(files_list) IN
       IF StatOk(filepath)
       THEN /\ files_by_size' =
                   IF MeetsThreshold(GetSize(filepath))
                   THEN DictAppend(files_by_size, GetSize(filepath), filepath)
                   ELSE files_by_size
            /\ out' = out
            /\ trace' = Append(trace, Call("getsize", filepath, TRUE,
                                           GetSize(filepath), <<>>))
       ELSE /\ files_by_size' = files_by_size
            /\ out' = out \o AccessWarning(filepath)
            /\ trace' = Append(trace, Call("getsize", filepath, FALSE, 0, <<>>))
    /\ files_list' = Tail(files_list)
    /\ UNCHANGED <<fsvars, runvars, pc, stack, files_by_hash,
                   duplicates_found, grp, idx, exitcode>>

\* The hash loop started as soon as one directory is done.
WalkDone_Early ==
    /\ pc = "walk"
    /\ files_list = <<>>
    /\ pc' = "hash"
    /\ grp' = 1
    /\ idx' = 1
    /\ UNCHANGED <<fsvars, runvars, stack, files_list, files_by_size,
                   files_by_hash, duplicates_found, out, trace, exitcode>>

\* os.walk is exhausted: the hash loop starts at the first size group.
WalkDone ==
    /\ pc = "walk"
    /\ files_list = <<>>
    /\ stack = <<>>
    /\ pc' = "hash"
    /\ grp' = 1
    /\ idx' = 1
    /\ UNCHANGED <<fsvars, runvars, stack, files_list, files_by_size,
                   files_by_hash, duplicates_found, out, trace, exitcode>>

\* The size pre-filter left out: groups of one member are hashed as well.
Qualifies_Any(file_list) == Len(file_list) > 0

\* The size group the hash loop is at is hashed at all.
Qualifies(file_list) == Len(file_list) > 1

\* The hash loop moves on to the next size group: the current one has a single
\* member, or all its members are done.
HashNextGroup ==
    /\ pc = "hash"
    /\ grp <= Len(files_by_size)
    /\ \/ ~Qualifies(files_by_size[grp].val)
       \/ idx > Len(files_by_size[grp].val)
    /\ grp' = grp + 1
    /\ idx' = 1
    /\ UNCHANGED <<fsvars, runvars, pc, stack, files_list, files_by_size,
                   files_by_hash, duplicates_found, out, trace, exitcode>>

\* The hash loop opening the first member of the group again and again.
HashTarget_First == files_by_size[grp].val[1]

\* The file the hash loop opens next.
HashTarget == files_by_size[grp].val[idx]
AtHashTarget ==
    /\ pc = "hash"
    /\ grp <= Len(files_by_size)
    /\ Qualifies(files_by_size[grp].val)
    /\ idx <= Len(files_by_size[grp].val)

\* Files filed by their length instead of the digest of their bytes.
FileHash_BySize(data) == Len(data)

\* file_hash for the bytes f.read() returned.
FileHash(data) == Md5(data)

\* The except clause of the hash loop swallowing the error (pass).
ReadWarning_Silent(filepath) == <<>>

\* What the except clause of the hash loop prints for filepath.
ReadWarning(filepath) == <<Echo("warn_read", filepath, 0)>>

\* One file of a size group is read and filed under its digest; a failure
\* prints a warning and the loop goes on.
HashFile ==
    /\ AtHashTarget
    /\ ~ReadBlocks(HashTarget)
    /\ LET filepath == HashTarget IN
       IF ReadOk(filepath)
       THEN /\ files_by_hash' =
                   DictAppend(files_by_hash, FileHash(FileAt(filepath).data), filepath)
            /\ out' = out
            /\ trace' = Append(trace, Call("read", filepath, TRUE, 0,
                                           FileAt(filepath).data))
       ELSE /\ files_by_hash' = files_by_hash
            /\ out' = out \o ReadWarning(filepath)
            /\ trace' = Append(trace, Call("read", filepath, FALSE, 0, <<>>))
    /\ idx' = idx + 1
    /\ UNCHANGED <<fsvars, runvars, pc, stack, files_list, files_by_size,
                   duplicates_found, grp, exitcode>>

\* All size groups are done: the report loop starts at the first bucket.
HashDone ==
    /\ pc = "hash"
    /\ grp > Len(files_by_size)
    /\ pc' = "report"
    /\ grp' = 1
    /\ idx' = 0
    /\ UNCHANGED <<fsvars, runvars, stack, files_list, files_by_size,
                   files_by_hash, duplicates_found, out, trace, exitcode>>

\* A bucket is reported as a set of duplicates.
IsCluster(file_list) == Len(file_list) > 1

\* The header line of a bucket with more than one member (the line shows the
\* first characters of the bucket's key).
ReportHeader ==
    /\ pc = "report"
    /\ grp <= Len(files_by_hash)
    /\ IsCluster(files_by_hash[grp].val)
    /\ idx = 0
    /\ duplicates_found' = TRUE
    /\ out' = Append(out, Echo("header", <<>>, files_by_hash[grp].key))
    /\ idx' = 1
    /\ UNCHANGED <<fsvars, runvars, pc, stack, files_list, files_by_size,
                   files_by_hash, grp, trace, exitcode>>

\* The member the report loop prints next.
ReportTarget == files_by_hash[grp].val[idx]
AtReportTarget ==
    /\ pc = "report"
    /\ grp <= Len(files_by_hash)
    /\ IsCluster(files_by_hash[grp].val)
    /\ idx >= 1
    /\ idx <= Len(files_by_hash[grp].val)

\* A report that removes every member of a cluster but the first.
ReportMember_Unlink ==
    /\ AtReportTarget
    /\ LET filepath == ReportTarget IN
       IF StatOk(filepath)
       THEN /\ out' = Append(out, Echo("member", filepath, GetSize(filepath)))
            /\ trace' = Append(trace, Call("getsize", filepath, TRUE,
                                           GetSize(filepath), <<>>))
            /\ idx' = idx + 1
            /\ fs' = IF idx > 1 THEN [fs EXCEPT ![filepath] = NoFile] ELSE fs
            /\ UNCHANGED <<pc, exitcode>>
       ELSE /\ out' = Append(out, Echo("traceback", filepath, 0))
            /\ trace' = Append(trace, Call("getsize", filepath, FALSE, 0, <<>>))
            /\ pc' = "crashed"
            /\ exitcode' = 1
            /\ idx' = idx
            /\ fs' = fs
    /\ UNCHANGED <<unreadable, dmode, changes, runvars, stack, files_list,
                   files_by_size, files_by_hash, duplicates_found, grp>>

\* One member line.  os.path.getsize is called again, outside any try: when
\* it raises, the exception leaves the command (traceback, exit status 1).
ReportMember ==
    /\ AtReportTarget
    /\ LET filepath == ReportTarget IN
       IF StatOk(filepath)
       THEN /\ out' = Append(out, Echo("member", filepath, GetSize(filepath)))
            /\ trace' = Append(trace, Call("getsize", filepath, TRUE,
                                           GetSize(filepath), <<>>))
            /\ idx' = idx + 1
            /\ UNCHANGED <<pc, exitcode>>
       ELSE /\ out' = Append(out, Echo("traceback", filepath, 0))
            /\ trace' = Append(trace, Call("getsize", filepath, FALSE, 0, <<>>))
            /\ pc' = "crashed"
            /\ exitcode' = 1
            /\ idx' = idx
    /\ UNCHANGED <<fsvars, runvars, stack, files_list, files_by_size,
                   files_by_hash, duplicates_found, grp>>

\* The report loop moves on: the bucket has a single member, or all members
\* of the cluster are printed and the blank line ends it.
ReportNextBucket ==
    /\ pc = "report"
    /\ grp <= Len(files_by_hash)
    /\ \/ /\ ~IsCluster(files_by_hash[grp].val)
          /\ out' = out
       \/ /\ IsCluster(files_by_hash[grp].val)
          /\ idx > Len(files_by_hash[grp].val)
          /\ out' = Append(out, Echo("blank", <<>>, 0))
    /\ grp' = grp + 1
    /\ idx' = 0
    /\ UNCHANGED <<fsvars, runvars, pc, stack, files_list, files_by_size,
                   files_by_hash, duplicates_found, trace, exitcode>>

\* The closing message printed whatever was reported.
ReportDone_AlwaysMessage ==
    /\ pc = "report"
    /\ grp > Len(files_by_hash)
    /\ out' = Append(out, Echo("no_duplicates", <<>>, 0))
    /\ pc' = "done"
    /\ exitcode' = 0
    /\ UNCHANGED <<fsvars, runvars, stack, files_list, files_by_size,
                   files_by_hash, duplicates_found, grp, idx, trace>>

\* After the last bucket: the closing message when nothing was reported, and
\* the command returns (exit status 0).
ReportDone ==
    /\ pc = "report"
    /\ grp > Len(files_by_hash)
    /\ out' = IF duplicates_found THEN out
              ELSE Append(out, Echo("no_duplicates", <<>>, 0))
    /\ pc' = "done"
    /\ exitcode' = 0
    /\ UNCHANGED <<fsvars, runvars, stack, files_list, files_by_size,
                   files_by_hash, duplicates_found, grp, idx, trace>>

(***************************************************************************)
(* Other processes.  The scan sees a file only through getsize and open,   *)
(* so a change to a file made at any moment has the effect of the same     *)
(* change made right before the next call of the scan on that file: it is  *)
(* taken there.  A file removed before its directory is listed is a tree   *)
(* of Init without that file.                                              *)
(***************************************************************************)
Running == pc \in {"walk", "hash", "report"}

\* The file the next step of the scan stats or opens.
IsNextAccess(p) ==
    \/ pc = "walk" /\ files_list # <<>> /\ p = Head(files_list)
    \/ AtHashTarget /\ p = HashTarget
    \/ AtReportTarget /\ p = ReportTarget

\* unlink(p)
EnvRemove(p) ==
    /\ changes < MaxEnvChanges
    /\ IsNextAccess(p)
    /\ fs[p].present
    /\ fs' = [fs EXCEPT ![p] = NoFile]
    /\ changes' = changes + 1
    /\ UNCHANGED <<unreadable, dmode, runvars, pc, stack, files_list,
                   files_by_size, files_by_hash, duplicates_found, grp, idx,
                   out, trace, exitcode>>

\* p is truncated, extended or replaced.
EnvRewrite(p, c) ==
    /\ changes < MaxEnvChanges
    /\ IsNextAccess(p)
    /\ fs[p].present
    /\ fs[p].data # c
    /\ fs' = [fs EXCEPT ![p].data = c]
    /\ changes' = changes + 1
    /\ UNCHANGED <<unreadable, dmode, runvars, pc, stack, files_list,
                   files_by_size, files_by_hash, duplicates_found, grp, idx,
                   out, trace, exitcode>>

\* chmod a-r p
EnvChmod(p) ==
    /\ changes < MaxEnvChanges
    /\ AtHashTarget
    /\ p = HashTarget
    /\ p \notin unreadable
    /\ unreadable' = unreadable \cup {p}
    /\ changes' = changes + 1
    /\ UNCHANGED <<fs, dmode, runvars, pc, stack, files_list,
                   files_by_size, files_by_hash, duplicates_found, grp, idx,
                   out, trace, exitcode>>

Env ==
    \E p \in FilePaths :
        \/ EnvRemove(p)
        \/ EnvChmod(p)
        \/ \E c \in Contents : EnvRewrite(p, c)

\* The steps of one invocation of the command.
Scan ==
    \/ Start
    \/ WalkDir
    \/ WalkFile
    \/ WalkDone
    \/ HashNextGroup
    \/ HashFile
    \/ HashDone
    \/ ReportHeader
    \/ ReportMember
    \/ ReportNextBucket
    \/ ReportDone

Next ==
    \/ Scan
    \/ Env

Spec == Init /\ [][Next]_vars

(***************************************************************************)
(* The command invoked a second time, with the same arguments, after the   *)
(* first invocation has ended: a new process, in which every local of      *)
(* duplicates() is created afresh.  No other process touches the tree.     *)
(***************************************************************************)
\* files_by_size living on between invocations (a module-level dict).
Rerun_StaleGroups ==
    /\ pc \in {"done", "crashed"}
    /\ run = 1
    /\ run' = 2
    /\ first_out' = out
    /\ pc' = "idle"
    /\ stack' = <<>>
    /\ files_list' = <<>>
    /\ files_by_size' = files_by_size
    /\ files_by_hash' = <<>>
    /\ duplicates_found' = FALSE
    /\ grp' = 0
    /\ idx' = 0
    /\ out' = <<>>
    /\ trace' = <<>>
    /\ exitcode' = -1
    /\ UNCHANGED <<fsvars, min_size, special, runallvars, duvars>>

Rerun ==
    /\ pc \in {"done", "crashed"}
    /\ run = 1
    /\ run' = 2
    /\ first_out' = out
    /\ pc' = "idle"
    /\ stack' = <<>>
    /\ files_list' = <<>>
    /\ files_by_size' = <<>>
    /\ files_by_hash' = <<>>
    /\ duplicates_found' = FALSE
    /\ grp' = 0
    /\ idx' = 0
    /\ out' = <<>>
    /\ trace' = <<>>
    /\ exitcode' = -1
    /\ UNCHANGED <<fsvars, min_size, special, runallvars, duvars>>

NextTwice ==
    \/ Scan
    \/ Rerun

SpecTwice == Init /\ [][NextTwice]_vars

(***************************************************************************)
(* The command on a tree that no other process touches, in which any of    *)
(* the files may be unreadable (mode 000) from the start: every pattern of *)
(* failing stats (directory modes) and failing reads.                      *)
(***************************************************************************)
InitStatic ==
    /\ fs \in [FilePaths -> FileStates]
    /\ dmode \in {m \in [DirPaths -> RootModes] : m[SubPath] \in DirModes}
    /\ min_size \in 0..MaxMinSize
    /\ special = {}
    /\ unreadable \in SUBSET {p \in FilePaths : fs[p].present}
    /\ NotStarted
    /\ RunAllUnused
    /\ DuUnused

SpecStatic == InitStatic /\ [][Scan]_vars

(***************************************************************************)
(* The command on a tree whose root also holds entries that are no regular *)
(* files, and regular files of no bytes.  Every directory is accessible    *)
(* and no other process touches the tree.  Every step of the command that  *)
(* can be taken is taken eventually; a step that cannot return (open of a  *)
(* FIFO without writer) is never taken.                                    *)
(***************************************************************************)
InitSpecial ==
    /\ fs \in [FilePaths -> {NoFile, EmptyFile,
                             [present |-> TRUE, data |-> <<2>>],
                             [present |-> TRUE, data |-> <<1, 1>>]}]
    /\ dmode = [d \in DirPaths |-> "rx"]
    /\ min_size \in 0..MaxMinSize
    /\ special \in SUBSET SpecialPaths
    /\ unreadable = {}
    /\ NotStarted
    /\ RunAllUnused
    /\ DuUnused

SpecSpecial == InitSpecial /\ [][Scan]_vars /\ WF_vars(Scan)

(***************************************************************************)
(* `mcli utils runall` (src/mcli/commands/utils.py).  The scripts of the   *)
(* directory that match the pattern are run one after the other in sorted  *)
(* order; script names are numbers, sorted() puts them in increasing order. *)
(***************************************************************************)
\* duplicates is not used, on an empty tree.
DuplicatesUnused ==
    /\ fs = [p \in FilePaths |-> NoFile]
    /\ dmode = [d \in DirPaths |-> "rx"]
    /\ min_size = 0
    /\ special = {}
    /\ unreadable = {}
    /\ NotStarted

RECURSIVE Sorted(_)
\* sorted(names): the names in increasing order.
Sorted(names) ==
    IF names = {} THEN <<>>
    ELSE LET least == CHOOSE n \in names : \A m \in names : n <= m
         IN <<least>> \o Sorted(names \ {least})

InitRunAll ==
    /\ dir_scripts \in SUBSET ScriptNames
    /\ behaviour \in [ScriptNames -> {"ok", "fail", "nostart"}]
    /\ RunAllNotStarted
    /\ DuplicatesUnused
    /\ DuUnused

\* glob and sort; without a match the command says so and returns.
RunAllStart ==
    /\ ra_pc = "idle"
    /\ scripts' = Sorted(dir_scripts)
    /\ IF dir_scripts = {}
       THEN /\ ra_out' = Append(ra_out, [k |-> "no_scripts", n |-> 0])
            /\ ra_pc' = "done"
            /\ script_i' = script_i
       ELSE /\ ra_out' = Append(ra_out, [k |-> "found",
                                         n |-> Cardinality(dir_scripts)])
            /\ ra_pc' = "loop"
            /\ script_i' = 1
    /\ UNCHANGED <<dupvars, duvars, dir_scripts, behaviour, success_count,
                   fail_count, executed>>

\* One iteration of the for loop: the banner, subprocess.run, and the count
\* of the outcome (exit status 0, another exit status, or an exception when
\* the interpreter cannot be started).  The loop goes on in every case.
RunScript ==
    /\ ra_pc = "loop"
    /\ script_i <= Len(scripts)
    /\ LET script == scripts[script_i]
           result == behaviour[script]
       IN /\ executed' = Append(executed, [script |-> script, result |-> result])
          /\ success_count' =
                 IF result = "ok" THEN success_count + 1 ELSE success_count
          /\ fail_count' =
                 IF result = "ok" THEN fail_count ELSE fail_count + 1
          /\ ra_out' = ra_out \o
                 <<[k |-> "running", n |-> script],
                   [k |-> (IF result = "ok" THEN "success"
                           ELSE IF result = "fail" THEN "failed"
                           ELSE "error"), n |-> script]>>
    /\ script_i' = script_i + 1
    /\ UNCHANGED <<dupvars, duvars, dir_scripts, behaviour, scripts, ra_pc>>

\* After the last script: the summary line.
RunAllSummary ==
    /\ ra_pc = "loop"
    /\ script_i > Len(scripts)
    /\ ra_out' = Append(ra_out, [k |-> "summary", n |-> fail_count])
    /\ ra_pc' = "done"
    /\ UNCHANGED <<dupvars, duvars, dir_scripts, behaviour, scripts, script_i,
                   success_count, fail_count, executed>>

NextRunAll ==
    \/ RunAllStart
    \/ RunScript
    \/ RunAllSummary

SpecRunAll == InitRunAll /\ [][NextRunAll]_vars

(***************************************************************************)
(* `mcli files diskusage` (src/mcli/commands/files.py).  The sizes of the  *)
(* subdirectories of the given path are computed by get_size, sorted and   *)
(* printed.                                                                *)
(***************************************************************************)
\* os.scandir(dir): the entries of a directory of the tree, in scandir order.
DuEntries(dir) ==
    IF dir = DuRoot
    THEN <<[name |-> "k", kind |-> "file"], [name |-> "x", kind |-> "dir"],
           [name |-> "y", kind |-> "dir"]>>
    ELSE IF dir = <<"t", "x">>
    THEN <<[name |-> "f", kind |-> "file"], [name |-> "n", kind |-> "dir"]>>
    ELSE IF dir = <<"t", "x", "n">>
    THEN <<[name |-> "g", kind |-> "file"]>>
    ELSE <<[name |-> "h", kind |-> "file"]>>

DuSearchable(dir) == du_mode[dir] = "rx"
RECURSIVE DuResolvable(_)
\* Every directory above p can be searched.
DuResolvable(p) ==
    IF Len(p) <= 1 THEN TRUE
    ELSE DuSearchable(Parent(p)) /\ DuResolvable(Parent(p))
\* os.scandir(dir) does not raise PermissionError.
DuListable(dir) == du_mode[dir] \in {"rx", "r"} /\ DuResolvable(dir)

RECURSIVE get_size(_)
RECURSIVE ScanSum(_, _, _)
\* The for loop of get_size over the entries still to come: the size of a
\* file is added, the get_size of a directory is added; entry.stat raising
\* PermissionError (the directory cannot be searched) ends the loop with
\* the total reached so far.
ScanSum(path, entries, total) ==
    IF entries = <<>> THEN total
    ELSE LET entry == Head(entries) IN
         IF entry.kind = "file"
         THEN IF DuSearchable(path)
              THEN ScanSum(path, Tail(entries),
                           total + du_size[Join(path, entry.name)])
              ELSE total
         ELSE ScanSum(path, Tail(entries),
                      total + get_size(Join(path, entry.name)))
\* get_size(path): 0 when os.scandir(path) raises PermissionError.
get_size(path) ==
    IF DuListable(path) THEN ScanSum(path, DuEntries(path), 0) ELSE 0

\* Order of the names as strings.
NameRank(name) == IF name = "x" THEN 1 ELSE IF name = "y" THEN 2 ELSE 0
\* (size, name) tuples as Python compares them.
ItemLess(a, b) ==
    \/ a[1] < b[1]
    \/ a[1] = b[1] /\ NameRank(a[2]) < NameRank(b[2])

RECURSIVE SortItems(_)
\* items.sort(reverse=True)
SortItems(its) ==
    IF its = <<>> THEN <<>>
    ELSE LET i == CHOOSE i \in 1..Len(its) :
                      \A j \in 1..Len(its) : ~ItemLess(its[i], its[j])
         IN <<its[i]>> \o SortItems(SubSeq(its, 1, i - 1)
                                       \o SubSeq(its, i + 1, Len(its)))

InitDiskUsage ==
    /\ depth \in 1..MaxDepth
    /\ du_mode \in [DuDirs -> DirModes]
    /\ du_size \in [DuFiles -> 0..MaxFileSize]
    /\ DuNotStarted
    /\ DuplicatesUnused
    /\ RunAllUnused

\* The banner, then os.scandir(path), which is outside any try: when the
\* path itself cannot be listed the PermissionError leaves the command.
DuStart ==
    /\ du_pc = "idle"
    /\ IF DuListable(DuRoot)
       THEN /\ du_todo' = DuEntries(DuRoot)
            /\ du_out' = Append(du_out, [k |-> "banner", size |-> 0, name |-> ""])
            /\ du_pc' = "loop"
            /\ du_exit' = du_exit
       ELSE /\ du_todo' = du_todo
            /\ du_out' = du_out \o <<[k |-> "banner", size |-> 0, name |-> ""],
                                      [k |-> "traceback", size |-> 0, name |-> ""]>>
            /\ du_pc' = "crashed"
            /\ du_exit' = 1
    /\ UNCHANGED <<dupvars, runallvars, depth, du_mode, du_size, items>>

\* One entry of the path: a directory is measured and appended to items.
DuEntry ==
    /\ du_pc = "loop"
    /\ du_todo # <<>>
    /\ LET entry == Head(du_todo) IN
       items' = IF entry.kind = "dir"
                THEN Append(items, <<get_size(Join(DuRoot, entry.name)),
                                     entry.name>>)
                ELSE items
    /\ du_todo' = Tail(du_todo)
    /\ UNCHANGED <<dupvars, runallvars, depth, du_mode, du_size, du_out,
                   du_pc, du_exit>>

\* The list is sorted and printed, one line for each item.
DuReport ==
    /\ du_pc = "loop"
    /\ du_todo = <<>>
    /\ items' = SortItems(items)
    /\ du_out' = du_out \o
           [i \in 1..Len(items) |->
               [k |-> "line", size |-> SortItems(items)[i][1],
                name |-> SortItems(items)[i][2]]]
    /\ du_pc' = "done"
    /\ du_exit' = 0
    /\ UNCHANGED <<dupvars, runallvars, depth, du_mode, du_size, du_todo>>

NextDiskUsage ==
    \/ DuStart
    \/ DuEntry
    \/ DuReport

SpecDiskUsage == InitDiskUsage /\ [][NextDiskUsage]_vars

(***************************************************************************)
(* What a run recorded, as read off the program state, the output and the  *)
(* calls issued.                                                           *)
(***************************************************************************)
Finished == pc \in {"done", "crashed"}
PastWalk == pc \in {"hash", "report", "done", "crashed"}
PastHash == pc \in {"report", "done", "crashed"}

\* Lines of the output of one kind that name path p.
Lines(kind, p) == {i \in 1..Len(out) : out[i].k = kind /\ out[i].path = p}
\* Warnings of any kind that name path p.
Warnings(p) == Lines("warn_access", p) \cup Lines("warn_read", p)
\* Calls of one kind, issued in one phase, on path p.
Calls(op, phase, p) ==
    {i \in 1..Len(trace) :
        trace[i].op = op /\ trace[i].at = phase /\ trace[i].path = p}
OkCalls(op, phase, p) == {i \in Calls(op, phase, p) : trace[i].ok}
FailedCalls(op, phase, p) == {i \in Calls(op, phase, p) : ~trace[i].ok}

\* p is a candidate: the walk recorded it in a size group.
Candidate(p) ==
    \E i \in 1..Len(files_by_size) :
        \E j \in 1..Len(files_by_size[i].val) : files_by_size[i].val[j] = p
\* The size group of a candidate and the size the walk recorded for it.
GroupOf(p) ==
    CHOOSE i \in 1..Len(files_by_size) :
        \E j \in 1..Len(files_by_size[i].val) : files_by_size[i].val[j] = p
WalkSize(p) == files_by_size[GroupOf(p)].key
\* p was read by the hash loop, and the digest of the bytes read.
WasRead(p) == OkCalls("read", "hash", p) # {}
ReadDigest(p) ==
    Md5(trace[CHOOSE i \in OkCalls("read", "hash", p) : TRUE].data)
\* p is filed in a hash bucket.
InBucket(p) ==
    \E i \in 1..Len(files_by_hash) :
        \E j \in 1..Len(files_by_hash[i].val) : files_by_hash[i].val[j] = p

\* The clusters of the report: a member line belongs to the cluster of the
\* last header line printed before it.
ClusterNo(i) == Cardinality({j \in 1..i : out[j].k = "header"})
ClusterCount == ClusterNo(Len(out))
InSomeCluster(p) == Lines("member", p) # {}
ReportedTogether(p, q) ==
    \E i \in Lines("member", p) :
        \E j \in Lines("member", q) : ClusterNo(i) = ClusterNo(j)

\* The files of the tree as it is now.
Present == {p \in FilePaths : fs[p].present}

(***************************************************************************)
(* C1.  Any two members of a reported cluster were recorded by the walk    *)
(* with the same size and have equal content digests.                      *)
(* Stated as claimed; the code files all size groups into one dict keyed   *)
(* by digest, so this is violated.                                         *)
(***************************************************************************)
C1_ClusterSameSizeAndDigest ==
    \A p \in FilePaths : \A q \in FilePaths :
        ReportedTogether(p, q) =>
            /\ WalkSize(p) = WalkSize(q)
            /\ ReadDigest(p) = ReadDigest(q)

(***************************************************************************)
(* C2.  When the command has ended, any two files that were both recorded  *)
(* by the walk with the same size and both read with equal digests are     *)
(* reported together in one cluster.                                       *)
(* Stated as claimed; a report that dies on the size lookup of a removed   *)
(* member (C5) leaves such pairs unreported.                               *)
(***************************************************************************)
C2_EqualFilesReportedTogether ==
    Finished =>
        \A p \in FilePaths : \A q \in FilePaths :
            ( /\ p # q
              /\ Candidate(p) /\ Candidate(q)
              /\ WasRead(p) /\ WasRead(q)
              /\ WalkSize(p) = WalkSize(q)
              /\ ReadDigest(p) = ReadDigest(q) )
            => ReportedTogether(p, q)

(***************************************************************************)
(* C3.  Equal size alone never clusters two files.                         *)
(***************************************************************************)
\* The tree was not changed during the scan and holds exactly the two files
\* p and q, which have the same size.
TwoEqualSizeFiles(p, q) ==
    /\ changes = 0
    /\ p # q
    /\ Present = {p, q}
    /\ Len(fs[p].data) = Len(fs[q].data)

\* C3 as claimed: members of one cluster have equal digests, and a tree of
\* two equal-size files with different content yields no cluster.  Violated:
\* two different contents with the same digest are reported as duplicates.
C3_DifferentContentNoCluster ==
    /\ \A p \in FilePaths : \A q \in FilePaths :
           ReportedTogether(p, q) => ReadDigest(p) = ReadDigest(q)
    /\ \A p \in FilePaths : \A q \in FilePaths :
           (TwoEqualSizeFiles(p, q) /\ fs[p].data # fs[q].data)
           => ClusterCount = 0

\* C3 as amended: two files whose digests differ are never members of the
\* same cluster, and a tree of two equal-size files with different content
\* digests yields no cluster.
C3_DifferentDigestNoCluster ==
    /\ \A p \in FilePaths : \A q \in FilePaths :
           ReportedTogether(p, q) => ReadDigest(p) = ReadDigest(q)
    /\ \A p \in FilePaths : \A q \in FilePaths :
           (TwoEqualSizeFiles(p, q) /\ Md5(fs[p].data) # Md5(fs[q].data))
           => ClusterCount = 0

\* A finished scan of two equal-size files with different digests, both of
\* which were read, that reported nothing.
C3_Witness ==
    /\ pc = "done"
    /\ ClusterCount = 0
    /\ \E p \in FilePaths : \E q \in FilePaths :
           /\ TwoEqualSizeFiles(p, q)
           /\ Md5(fs[p].data) # Md5(fs[q].data)
           /\ WasRead(p) /\ WasRead(q)

(***************************************************************************)
(* C4.  A read failure in the hash loop prints exactly one warning for     *)
(* that file and keeps only that file out of the buckets; it never ends    *)
(* the command, and when the hash loop is over every member of every size  *)
(* group with more than one member has been opened exactly once, the ones  *)
(* read successfully being filed in a bucket.                              *)
(***************************************************************************)
C4_ReadFailureIsolated ==
    /\ \A p \in FilePaths :
           FailedCalls("read", "hash", p) # {} =>
               /\ Cardinality(Lines("warn_read", p)) = 1
               /\ ~InBucket(p)
               /\ pc \in {"hash", "report", "done", "crashed"}
               /\ pc = "crashed" => trace[Len(trace)].at = "report"
    /\ PastHash =>
           \A i \in 1..Len(files_by_size) :
               Len(files_by_size[i].val) > 1 =>
                   \A j \in 1..Len(files_by_size[i].val) :
                       LET p == files_by_size[i].val[j] IN
                       /\ Cardinality(Calls("read", "hash", p)) = 1
                       /\ WasRead(p) => InBucket(p)

\* A finished scan in which a read failed, a later member was still read,
\* and a cluster was reported.
C4_Witness ==
    /\ pc = "done"
    /\ exitcode = 0
    /\ ClusterCount > 0
    /\ \E p \in FilePaths : \E q \in FilePaths :
           \E i \in FailedCalls("read", "hash", p) :
               \E j \in OkCalls("read", "hash", q) : i < j

(***************************************************************************)
(* C5.  With a root that can be listed, no failure on a single file ends   *)
(* the command: it never dies, and it ends with exit status 0.             *)
(* Stated as claimed; the size lookup of the report is outside any try, so *)
(* a member removed after it was hashed kills the command.                 *)
(***************************************************************************)
C5_SingleFileFailureNeverAborts ==
    Listable(RootPath) =>
        /\ pc # "crashed"
        /\ pc = "done" => exitcode = 0

(***************************************************************************)
(* C6.  When the subdirectory of a readable root cannot be listed          *)
(* (permission denied), the scan ends with exit status 0 and has printed   *)
(* exactly one warning naming the subdirectory.                            *)
(* Stated as claimed; os.walk is called without onerror, so the directory  *)
(* is passed over without any warning.                                     *)
(***************************************************************************)
C6_UnlistableSubdirWarnedOnce ==
    ( /\ Finished
      /\ dmode[RootPath] = "rx"
      /\ dmode[SubPath] = "none" )
    => /\ exitcode = 0
       /\ Cardinality({i \in 1..Len(out) : out[i].path = SubPath}) = 1

\* The calls of os.walk on a directory.
ListedOk(dir) ==
    \E i \in 1..Len(trace) :
        trace[i].op = "scandir" /\ trace[i].path = dir /\ trace[i].ok
ListTried(dir) ==
    \E i \in 1..Len(trace) : trace[i].op = "scandir" /\ trace[i].path = dir

(***************************************************************************)
(* C7.  A file whose stat fails during the walk gets exactly one warning   *)
(* naming it, is not a candidate, is never read and never reported; and    *)
(* the walk goes on: when it is over, every directory reachable through    *)
(* listed directories has been listed, and every file still present in a   *)
(* listed directory has been stat'd exactly once.                          *)
(***************************************************************************)
C7_StatFailureSkipped ==
    /\ \A p \in FilePaths :
           FailedCalls("getsize", "walk", p) # {} =>
               /\ Cardinality(Lines("warn_access", p)) = 1
               /\ ~Candidate(p)
               /\ Calls("read", "hash", p) = {}
               /\ ~InSomeCluster(p)
               /\ pc # "crashed" \/ trace[Len(trace)].at = "report"
    /\ (PastWalk /\ exitcode # 2) =>
           /\ ListTried(RootPath)
           /\ ListedOk(RootPath) => ListTried(SubPath)
           /\ \A p \in FilePaths :
                  (fs[p].present /\ ListedOk(Parent(p)))
                  => Cardinality(Calls("getsize", "walk", p)) = 1

\* A finished scan in which a stat of the walk failed and a later entry was
\* still stat'd successfully.
C7_Witness ==
    /\ pc = "done"
    /\ \E p \in FilePaths : \E q \in FilePaths :
           \E i \in FailedCalls("getsize", "walk", p) :
               \E j \in OkCalls("getsize", "walk", q) : i < j

C9_UniqueSizeNeverClustered ==
    PastWalk =>
        \A p \in FilePaths :
            (Candidate(p) /\ Len(files_by_size[GroupOf(p)].val) = 1)
            => /\ ~InSomeCluster(p)
               /\ ~InBucket(p)

\* A finished scan that reported a cluster while some candidate was alone
\* in its size group.
C9_Witness ==
    /\ pc = "done"
    /\ ClusterCount > 0
    /\ \E p \in FilePaths :
           Candidate(p) /\ Len(files_by_size[GroupOf(p)].val) = 1

(***************************************************************************)
(* C10.  Files below the threshold.                                        *)
(***************************************************************************)
\* C10 as claimed: a file whose size is below the threshold is in no cluster
\* and has no warning.  Violated: a file whose stat fails (its directory
\* cannot be searched) is warned about whatever its size.
C10_BelowThresholdSilent ==
    \A p \in FilePaths :
        (fs[p].present /\ Len(fs[p].data) < min_size)
        => /\ ~InSomeCluster(p)
           /\ Warnings(p) = {}

\* C10 as amended: a file for which the stat of the walk returned a size
\* below the threshold is no candidate, is never read, is in no cluster and
\* has no warning.
C10_StatBelowThresholdSilent ==
    \A p \in FilePaths :
        (\E i \in OkCalls("getsize", "walk", p) : trace[i].size < min_size)
        => /\ ~Candidate(p)
           /\ Calls("read", "hash", p) = {}
           /\ ~InSomeCluster(p)
           /\ Warnings(p) = {}

\* A finished scan that skipped a file below the threshold and reported a
\* cluster of larger files.
C10_Witness ==
    /\ pc = "done"
    /\ ClusterCount > 0
    /\ \E p \in FilePaths :
           \E i \in OkCalls("getsize", "walk", p) : trace[i].size < min_size

(***************************************************************************)
(* Further readings of a run, for the claims below.                        *)
(***************************************************************************)
\* How often p is entered in the size groups.
Occurrences(p) ==
    Cardinality(UNION {{<<g, j>> : j \in {k \in 1..Len(files_by_size[g].val) :
                                             files_by_size[g].val[k] = p}} :
                          g \in 1..Len(files_by_size)})
\* Both directories can be listed and searched.
TreeAccessible == dmode[RootPath] = "rx" /\ dmode[SubPath] = "rx"
\* The smallest element of a non-empty set of indices.
MinOf(S) == CHOOSE i \in S : \A j \in S : i <= j
\* The files the hash loop read, and the other read files that the design's
\* fingerprint bucket of p holds: same size group, same digest.
ReadFiles == {p \in FilePaths : Candidate(p) /\ WasRead(p)}
BucketOf(p) ==
    {q \in ReadFiles :
        WalkSize(q) = WalkSize(p) /\ ReadDigest(q) = ReadDigest(p)}
\* The member lines of the c-th cluster of the report.
MembersOf(c) ==
    {i \in 1..Len(out) : out[i].k = "member" /\ ClusterNo(i) = c}
HeaderLines == {i \in 1..Len(out) : out[i].k = "header"}
WarningLines ==
    {i \in 1..Len(out) : out[i].k \in {"warn_access", "warn_read"}}
HasNoDuplicatesMessage == \E i \in 1..Len(out) : out[i].k = "no_duplicates"

C12_OnlyStrictlyLargerChecked ==
    \A p \in FilePaths :
        (\E i \in OkCalls("getsize", "walk", p) : trace[i].size <= min_size)
        => /\ Calls("read", "hash", p) = {}
           /\ ~InSomeCluster(p)

(***************************************************************************)
(* C13.  When the command has ended, every cluster of the report has at    *)
(* least two members, there is exactly one cluster for each fingerprint    *)
(* bucket (same size group, same digest) with at least two read members,   *)
(* and a file alone in its bucket is in no cluster.                        *)
(* Stated as claimed; violated by the report that dies after a header (C5) *)
(* and by buckets that are shared between size groups (C1).                *)
(***************************************************************************)
C13_OneClusterPerBucket ==
    Finished =>
        /\ \A c \in 1..ClusterCount : Cardinality(MembersOf(c)) >= 2
        /\ ClusterCount =
               Cardinality({BucketOf(p) : p \in
                               {q \in ReadFiles : Cardinality(BucketOf(q)) >= 2}})
        /\ \A p \in ReadFiles :
               Cardinality(BucketOf(p)) = 1 => ~InSomeCluster(p)

(***************************************************************************)
(* C14.  Clusters are reported in the order in which their digest was      *)
(* first read, and the size groups are read in the order in which their    *)
(* size was first recorded by the walk.                                    *)
(***************************************************************************)
\* The first successful read that returned bytes of digest d.
FirstReadOf(d) ==
    MinOf({i \in 1..Len(trace) :
              /\ trace[i].op = "read" /\ trace[i].ok
              /\ Md5(trace[i].data) = d})
\* The first stat of the walk that returned size n.
FirstStatOf(n) ==
    MinOf({i \in 1..Len(trace) :
              /\ trace[i].op = "getsize" /\ trace[i].at = "walk"
              /\ trace[i].ok /\ trace[i].size = n})

C14_ClustersInFirstEncounterOrder ==
    /\ \A h1 \in HeaderLines : \A h2 \in HeaderLines :
           h1 < h2 => FirstReadOf(out[h1].n) < FirstReadOf(out[h2].n)
    /\ \A g1 \in 1..Len(files_by_size) : \A g2 \in 1..Len(files_by_size) :
           g1 < g2 =>
               /\ FirstStatOf(files_by_size[g1].key)
                      < FirstStatOf(files_by_size[g2].key)
               /\ \A p \in FilePaths : \A q \in FilePaths :
                      ( /\ Candidate(p) /\ Candidate(q)
                        /\ GroupOf(p) = g1 /\ GroupOf(q) = g2 )
                      => \A i \in Calls("read", "hash", p) :
                             \A j \in Calls("read", "hash", q) : i < j

\* A finished scan that reported two clusters.
C14_Witness ==
    /\ pc = "done"
    /\ ClusterCount = 2
    /\ Len(files_by_size) = 2

(***************************************************************************)
(* C15.  Within a cluster the members are listed in the order in which the *)
(* walk discovered them.                                                   *)
(* Stated as claimed; a bucket shared between size groups (C1) lists the   *)
(* members of the earlier group first, whatever the walk order.            *)
(***************************************************************************)
C15_MembersInWalkOrder ==
    \A i \in 1..Len(out) : \A j \in 1..Len(out) :
        ( /\ i < j
          /\ out[i].k = "member" /\ out[j].k = "member"
          /\ ClusterNo(i) = ClusterNo(j) )
        => \A a \in Calls("getsize", "walk", out[i].path) :
               \A b \in Calls("getsize", "walk", out[j].path) : a < b

(***************************************************************************)
(* C16.  The command run a second time on the unchanged tree reports the   *)
(* same clusters (same members) and the same warnings as the first time.   *)
(***************************************************************************)
\* The clusters (sets of member paths) and the warnings of an output.
ClustersIn(o) ==
    {{o[i].path : i \in {j \in 1..Len(o) :
                            /\ o[j].k = "member"
                            /\ Cardinality({h \in 1..j : o[h].k = "header"}) = c}} :
        c \in 1..Cardinality({h \in 1..Len(o) : o[h].k = "header"})}
WarningsIn(o) ==
    {<<o[i].k, o[i].path>> :
        i \in {j \in 1..Len(o) : o[j].k \in {"warn_access", "warn_read"}}}

C16_SecondRunSameReport ==
    (run = 2 /\ Finished) =>
        /\ ClustersIn(out) = ClustersIn(first_out)
        /\ WarningsIn(out) = WarningsIn(first_out)
        /\ pc = "done"

\* A second run has ended after both runs reported a cluster and a warning.
C16_Witness ==
    /\ run = 2
    /\ pc = "done"
    /\ ClustersIn(first_out) # {}
    /\ WarningsIn(first_out) # {}
    /\ ClustersIn(out) # {}

(***************************************************************************)
(* C17.  The phases of a scan follow one another in order, none is skipped *)
(* by a scan that started and none is entered again; no file is read       *)
(* before the walk has listed and stat'd the whole tree, no cluster is     *)
(* printed before every member of every qualifying size group has been     *)
(* opened, and nothing happens after the command has ended.                *)
(***************************************************************************)
PhaseRank(phase) ==
    CASE phase = "idle" -> 0
      [] phase = "walk" -> 1
      [] phase = "hash" -> 2
      [] phase = "report" -> 3
      [] OTHER -> 4

C17_PhasesInOrder ==
    /\ [](PastWalk => (stack = <<>> /\ files_list = <<>>))
    /\ [](\A i \in 1..Len(trace) :
              /\ trace[i].op = "scandir" => trace[i].at = "walk"
              /\ trace[i].op = "read" => trace[i].at = "hash"
              /\ trace[i].op = "getsize" => trace[i].at \in {"walk", "report"})
    /\ []((HeaderLines # {} \/ PastHash) =>
              /\ PastHash
              /\ \A g \in 1..Len(files_by_size) :
                     Len(files_by_size[g].val) > 1 =>
                         \A j \in 1..Len(files_by_size[g].val) :
                             Calls("read", "hash", files_by_size[g].val[j]) # {})
    /\ [][ /\ pc \notin {"done", "crashed"}
           /\ \/ PhaseRank(pc') = PhaseRank(pc)
              \/ PhaseRank(pc') = PhaseRank(pc) + 1
              \/ pc = "idle" /\ pc' = "done" /\ exitcode' = 2 ]_vars

\* A finished scan that walked, read files and reported a cluster.
C17_Witness ==
    /\ pc = "done"
    /\ exitcode = 0
    /\ ClusterCount > 0
    /\ ListedOk(SubPath)

(***************************************************************************)
(* C18.  In the output of a completed scan every cluster line comes before *)
(* every warning.                                                          *)
(* Stated as claimed; the code prints each warning at once, during the     *)
(* walk and the hash loop, so the warnings come before the clusters.       *)
(***************************************************************************)
C18_WarningsAfterClusters ==
    (pc = "done" /\ exitcode = 0) =>
        \A w \in WarningLines :
            \A c \in 1..Len(out) :
                out[c].k \in {"header", "member"} => c < w

(***************************************************************************)
(* C19.  A completed scan prints "No duplicate files found." exactly when  *)
(* it printed no cluster, and the message is printed at no other moment;   *)
(* a tree without files gives no cluster, no warning, the message and exit *)
(* status 0; a tree whose files are all below the threshold gives no       *)
(* cluster and the message.                                                *)
(***************************************************************************)
C19_NoDuplicatesMessage ==
    /\ (pc = "done" /\ exitcode = 0) =>
           (HasNoDuplicatesMessage <=> ClusterCount = 0)
    /\ HasNoDuplicatesMessage => (pc = "done" /\ exitcode = 0)
    /\ (pc = "done" /\ changes = 0 /\ TreeAccessible) =>
           /\ Present = {} =>
                  /\ ClusterCount = 0
                  /\ WarningLines = {}
                  /\ exitcode = 0
                  /\ HasNoDuplicatesMessage
           /\ (\A p \in Present : Len(fs[p].data) < min_size) =>
                  /\ ClusterCount = 0
                  /\ HasNoDuplicatesMessage

\* A completed scan of a tree with files, all below the threshold.
C19_Witness ==
    /\ pc = "done"
    /\ changes = 0
    /\ TreeAccessible
    /\ Cardinality(Present) >= 2
    /\ \A p \in Present : Len(fs[p].data) < min_size
    /\ HasNoDuplicatesMessage

(***************************************************************************)
(* C20.  The walk never lists a directory that is a symbolic link and      *)
(* never touches a path below one: no call is issued on such a path, none  *)
(* is a candidate, none is named in the output.                            *)
(***************************************************************************)
\* p lies below a symbolic link.
ViaLink(p) == Len(p) >= 2 /\ Real(Parent(p)) # Parent(p)

C20_LinksNotFollowed ==
    /\ \A i \in 1..Len(trace) :
           /\ ~ViaLink(trace[i].path)
           /\ trace[i].op = "scandir" => Real(trace[i].path) = trace[i].path
    /\ \A i \in 1..Len(stack) : Real(stack[i]) = stack[i]
    /\ \A i \in 1..Len(files_list) : ~ViaLink(files_list[i])
    /\ \A i \in 1..Len(out) : ~ViaLink(out[i].path)
    /\ \A g \in 1..Len(files_by_size) :
           \A j \in 1..Len(files_by_size[g].val) :
               ~ViaLink(files_by_size[g].val[j])

\* A finished scan that listed both directories, each with its symbolic link
\* among the directories, and reported a cluster.
C20_Witness ==
    /\ pc = "done"
    /\ TreeAccessible
    /\ ListedOk(RootPath)
    /\ ListedOk(SubPath)
    /\ ClusterCount > 0

(***************************************************************************)
(* C21.  Every scan eventually ends with its report.                       *)
(* Stated as claimed, for scans that take every step they can take; the    *)
(* walk does end (symbolic links are not followed), but a FIFO of the root *)
(* that shares the size group 0 with another entry is opened by the hash   *)
(* loop, and that open never returns.                                      *)
(***************************************************************************)
C21_ScanReachesReported == <>(pc = "done")

(***************************************************************************)
(* C28.  No entry that is not a regular file (a FIFO, a symbolic link to a *)
(* file) is ever placed in a size group, and a symbolic link is never      *)
(* reported in one cluster with the file it points to.                     *)
(* Stated as claimed; the walk stats every non-directory entry and         *)
(* os.path.getsize follows symbolic links.                                 *)
(***************************************************************************)
C28_OnlyRegularFilesAreCandidates ==
    /\ \A g \in 1..Len(files_by_size) :
           \A j \in 1..Len(files_by_size[g].val) :
               files_by_size[g].val[j] \notin SpecialPaths
    /\ ~ReportedTogether(FileLinkPath, FileLinkTarget)

(***************************************************************************)
(* C25.  A file is opened only in the hash loop and only when the walk     *)
(* recorded it in a size group of two or more candidates; a candidate      *)
(* alone in its size group is never opened, and no file is opened more     *)
(* than once in a scan.                                                    *)
(***************************************************************************)
C25_SizePreFilter ==
    /\ \A i \in 1..Len(trace) :
           trace[i].op = "read" =>
               /\ trace[i].at = "hash"
               /\ Candidate(trace[i].path)
               /\ Len(files_by_size[GroupOf(trace[i].path)].val) >= 2
               /\ \A j \in 1..Len(trace) :
                      (trace[j].op = "read" /\ trace[j].path = trace[i].path)
                      => j = i
    /\ \A g \in 1..Len(files_by_size) :
           Len(files_by_size[g].val) = 1 =>
               \A i \in 1..Len(trace) :
                   ~(trace[i].op = "read"
                       /\ trace[i].path = files_by_size[g].val[1])

\* A finished scan with a candidate alone in its group, with a group of two
\* that was read, and nothing reported.
C25_Witness ==
    /\ pc = "done"
    /\ ClusterCount = 0
    /\ \E p \in FilePaths :
           /\ Candidate(p)
           /\ Len(files_by_size[GroupOf(p)].val) = 1
    /\ \E q \in FilePaths :
           /\ Candidate(q)
           /\ Len(files_by_size[GroupOf(q)].val) = 2
           /\ WasRead(q)

(***************************************************************************)
(* C26.  Every path is a member of at most one cluster and is listed at    *)
(* most once in it: it has at most one member line in the whole report,    *)
(* and at most one entry in the hash buckets, whatever stats and reads     *)
(* failed.                                                                 *)
(***************************************************************************)
C26_ClustersDisjoint ==
    /\ \A i \in 1..Len(out) : \A j \in 1..Len(out) :
           ( /\ out[i].k = "member" /\ out[j].k = "member"
             /\ out[i].path = out[j].path )
           => i = j
    /\ \A g \in 1..Len(files_by_hash) : \A h \in 1..Len(files_by_hash) :
           \A i \in 1..Len(files_by_hash[g].val) :
               \A j \in 1..Len(files_by_hash[h].val) :
                   files_by_hash[g].val[i] = files_by_hash[h].val[j]
                   => (g = h /\ i = j)

\* A scan that reported a cluster after a failed read.
C26_Witness ==
    /\ pc = "done"
    /\ ClusterCount >= 1
    /\ \E p \in FilePaths : FailedCalls("read", "hash", p) # {}

(***************************************************************************)
(* C27.  Every member line shows the size under which the walk grouped the *)
(* file, so the members of one cluster are shown with one size.            *)
(* Stated as claimed; the report stats every member again (files.py:62)    *)
(* and shows the size the file has then.                                   *)
(***************************************************************************)
C27_MemberShownWithGroupedSize ==
    \A i \in 1..Len(out) :
        out[i].k = "member" =>
            /\ out[i].n = WalkSize(out[i].path)
            /\ \A j \in 1..Len(out) :
                   (out[j].k = "member" /\ ClusterNo(j) = ClusterNo(i))
                   => out[j].n = out[i].n

(***************************************************************************)
(* C29.  No path gets a second call in the phase in which it had one (no   *)
(* entry is stat'd twice by the walk, no file read twice by the hash       *)
(* loop), and no call at all after one that failed; an entry whose stat    *)
(* failed is no candidate, a file whose read failed is in no bucket; and   *)
(* every failure printed exactly one warning: each failed stat or read has *)
(* its warning line, no warning is printed twice, and there is no warning  *)
(* without its failure.                                                    *)
(***************************************************************************)
C29_NoRetry ==
    /\ \A i \in 1..Len(trace) : \A j \in 1..Len(trace) :
           (i < j /\ trace[i].path = trace[j].path) =>
               /\ trace[i].ok
               /\ trace[i].at # trace[j].at
    /\ \A i \in 1..Len(trace) :
           (~trace[i].ok /\ trace[i].op = "getsize" /\ trace[i].at = "walk") =>
               /\ ~Candidate(trace[i].path)
               /\ \E w \in 1..Len(out) :
                      out[w].k = "warn_access" /\ out[w].path = trace[i].path
    /\ \A i \in 1..Len(trace) :
           (~trace[i].ok /\ trace[i].op = "read") =>
               /\ ~InBucket(trace[i].path)
               /\ \E w \in 1..Len(out) :
                      out[w].k = "warn_read" /\ out[w].path = trace[i].path
    /\ \A w \in 1..Len(out) :
           out[w].k \in {"warn_access", "warn_read"} =>
               /\ \A v \in 1..Len(out) :
                      (out[v].k = out[w].k /\ out[v].path = out[w].path)
                      => v = w
               /\ \E i \in 1..Len(trace) :
                      /\ ~trace[i].ok
                      /\ trace[i].path = out[w].path
                      /\ trace[i].op =
                             (IF out[w].k = "warn_access" THEN "getsize"
                              ELSE "read")

\* A finished scan in which a stat failed and a read failed.
C29_Witness ==
    /\ pc = "done"
    /\ \E p \in FilePaths : FailedCalls("getsize", "walk", p) # {}
    /\ \E q \in FilePaths : FailedCalls("read", "hash", q) # {}

(***************************************************************************)
(* C30.  No step of the command changes the tree: the files and their      *)
(* contents, their permissions, the directories and the special entries    *)
(* are the same after every step that is not a step of another process.    *)
(***************************************************************************)
C30_ScanLeavesTreeUnchanged ==
    [][changes' = changes =>
           /\ fs' = fs
           /\ unreadable' = unreadable
           /\ dmode' = dmode
           /\ special' = special]_vars

\* A scan of an untouched tree that ended after a warning and a cluster.
C30_Witness ==
    /\ pc = "done"
    /\ changes = 0
    /\ ClusterCount >= 1
    /\ WarningLines # {}

(***************************************************************************)
(* C22.  runall runs no script after one that failed: every script run     *)
(* before another one exited with status 0.                                *)
(* Stated as claimed (the docstring: "Stops on first error"); the loop has *)
(* no break, so every script of the list is run.                           *)
(***************************************************************************)
C22_StopsAtFirstFailure ==
    \A i \in 1..Len(executed) : \A j \in 1..Len(executed) :
        i < j => executed[i].result = "ok"

(***************************************************************************)
(* Readings of a run of diskusage.                                         *)
(***************************************************************************)
DuLines == {i \in 1..Len(du_out) : du_out[i].k = "line"}
\* The directories d levels below the given path.
DirsAtDepth(d) == {p \in DuDirs : Len(p) = Len(DuRoot) + d}
\* p lies below dir.
Below(p, dir) == Len(p) > Len(dir) /\ SubSeq(p, 1, Len(dir)) = dir
RECURSIVE SumSizes(_)
SumSizes(fileset) ==
    IF fileset = {} THEN 0
    ELSE LET f == CHOOSE f \in fileset : TRUE
         IN du_size[f] + SumSizes(fileset \ {f})
\* The bytes of the files below dir that can be reached: every directory on
\* the way from the root to the file can be listed and searched.
AccessibleBytes(dir) ==
    SumSizes({f \in DuFiles :
                 /\ Below(f, dir)
                 /\ \A d \in DuDirs : (d = DuRoot \/ Below(f, d)) => du_mode[d] = "rx"})

(***************************************************************************)
(* C23.  diskusage on an accessible tree lists the directories that are    *)
(* --depth levels below the given path.                                    *)
(* Stated as claimed (the docstring and the help of --depth); the option   *)
(* is never read, the directories one level down are listed always.        *)
(***************************************************************************)
C23_ListsDirectoriesAtDepth ==
    (du_pc = "done" /\ \A d \in DuDirs : du_mode[d] = "rx") =>
        {du_out[i].name : i \in DuLines}
            = {p[Len(p)] : p \in DirsAtDepth(depth)}

\* A run of diskusage ended as the claim says: exit status 0, every
\* subdirectory of the path listed with the bytes of the files below it that
\* can be reached (a directory that cannot be listed or searched contributes
\* none), in non-increasing order of those sizes.
DuCompleted ==
    /\ du_pc = "done"
    /\ du_exit = 0
    /\ {du_out[i].name : i \in DuLines} = {"x", "y"}
    /\ \A i \in DuLines :
           du_out[i].size = AccessibleBytes(Join(DuRoot, du_out[i].name))
    /\ \A i \in DuLines : \A j \in DuLines :
           i < j => du_out[i].size >= du_out[j].size

DuCompletesOnListablePath ==
    (du_pc \in {"done", "crashed"} /\ DuListable(DuRoot)) => DuCompleted

====
